---- MODULE Spec2Model ----
(***************************************************************************)
(* pelicanconf.py: the settings module of the site.  The module is a flat  *)
(* list of assignment statements `NAME = literal`.  Loading it executes    *)
(* the statements top to bottom into a fresh module namespace; afterwards  *)
(* the site generator reads settings from that namespace by name.          *)
(*                                                                         *)
(* Python strings are TLA+ strings (Len, SubSeq and \o act on them         *)
(* character by character).  Every setting value carries its Python type,  *)
(* so that None, '' and () are three different values.                     *)
(***************************************************************************)
EXTENDS Integers, Sequences, FiniteSets, TLC

VARIABLES pc, ns, assigned, deps, got

vars == <<pc, ns, assigned, deps, got>>

(* Two independent loads of the file (two runs of the generator). *)
Loads == {1, 2}

-----------------------------------------------------------------------------
(* Python values *)

PyStr(s) == [type |-> "str", val |-> s]

PyInt(n) == [type |-> "int", val |-> n]

PyNone == [type |-> "NoneType", val |-> "None"]

PyTuple(t) == [type |-> "tuple", val |-> t]

PyDict(d) == [type |-> "dict", val |-> d]

-----------------------------------------------------------------------------
(* The literals of pelicanconf.py, one definition per setting *)

AUTHOR == PyStr("Adriana Vasiu")

SITENAME == PyStr("")

SITEURL == PyStr("")

THEME == PyStr("themes/attila")

PATH == PyStr("content")

TIMEZONE == PyStr("Europe/London")

DEFAULT_LANG == PyStr("en")

FEED_ALL_ATOM_Enabled == PyStr("feeds/all.atom.xml")

FEED_ALL_ATOM == PyNone

CATEGORY_FEED_ATOM == PyNone

TRANSLATION_FEED_ATOM == PyNone

AUTHOR_FEED_ATOM == PyNone

AUTHOR_FEED_RSS == PyNone

MENUITEMS_AbsoluteAuthor == PyTuple(<< <<"Home", "/">>, <<"Author", "https://mooseberrytech.github.io/author/adriana-vasiu/">>, <<"Testing", "/category/testing/">>, <<"Development", "/category/development/">>, <<"Instrumentation", "/category/instrumentation/">>, <<"Automation", "/category/automation/">>, <<"Ways of Working", "/category/ways-of-working/">> >>)

MENUITEMS_HomeLast == PyTuple(<< <<"Author", "/author/adriana-vasiu/">>, <<"Testing", "/category/testing/">>, <<"Development", "/category/development/">>, <<"Instrumentation", "/category/instrumentation/">>, <<"Automation", "/category/automation/">>, <<"Ways of Working", "/category/ways-of-working/">>, <<"Home", "/">> >>)

MENUITEMS_SpacedSlug == PyTuple(<< <<"Home", "/">>, <<"Author", "/author/adriana-vasiu/">>, <<"Testing", "/category/testing/">>, <<"Development", "/category/development/">>, <<"Instrumentation", "/category/instrumentation/">>, <<"Automation", "/category/automation/">>, <<"Ways of Working", "/category/Ways of Working/">> >>)

MENUITEMS == PyTuple(<< <<"Home", "/">>, <<"Author", "/author/adriana-vasiu/">>, <<"Testing", "/category/testing/">>, <<"Development", "/category/development/">>, <<"Instrumentation", "/category/instrumentation/">>, <<"Automation", "/category/automation/">>, <<"Ways of Working", "/category/ways-of-working/">> >>)

LINKS == PyTuple(<<>>)

SOCIAL == PyTuple(<< <<"You can add links in your config file", "#">>, <<"Another social link", "#">> >>)

DEFAULT_PAGINATION == PyInt(3)

PAGINATION_PATTERNS_Swapped == PyTuple(<< <<2, "{base_name}/page/{number}/", "{base_name}/page/{number}/index.html">>, <<1, "{base_name}/", "{base_name}/index.html">> >>)

PAGINATION_PATTERNS == PyTuple(<< <<1, "{base_name}/", "{base_name}/index.html">>, <<2, "{base_name}/page/{number}/", "{base_name}/page/{number}/index.html">> >>)

ARTICLE_URL == PyStr("{date:%Y}/{date:%m}/{slug}.html")

ARTICLE_SAVE_AS == PyStr("{date:%Y}/{date:%m}/{slug}.html")

PAGE_URL == PyStr("pages/{slug}/")

PAGE_SAVE_AS == PyStr("pages/{slug}/index.html")

YEAR_ARCHIVE_SAVE_AS == PyStr("{date:%Y}/index.html")

MONTH_ARCHIVE_SAVE_AS == PyStr("{date:%Y}/{date:%m}/index.html")

CATEGORY_URL == PyStr("category/{slug}")

CATEGORY_SAVE_AS == PyStr("category/{slug}/index.html")

CATEGORIES_SAVE_AS == PyStr("catgegories.html")

TAG_URL == PyStr("tag/{slug}")

TAG_SAVE_AS_Named == PyStr("tag/{name}/index.html")

TAG_SAVE_AS == PyStr("tag/{slug}/index.html")

TAGS_SAVE_AS == PyStr("tags.html")

AUTHOR_URL == PyStr("author/{slug}")

AUTHOR_SAVE_AS == PyStr("author/{slug}/index.html")

AUTHORS_SAVE_AS == PyStr("authors.html")

AUTHOR_META_DisplayKey == PyDict("Adriana Vasiu" :> [name |-> "Adriana Vasiu", image |-> "images/mooseberry_tech-512x512-NO-TEXT.png", linkedin |-> "adrianavasiu", bio |-> "I currently work as a consultant on software development."])

AUTHOR_META == PyDict("adriana vasiu" :> [name |-> "Adriana Vasiu", image |-> "images/mooseberry_tech-512x512-NO-TEXT.png", linkedin |-> "adrianavasiu", bio |-> "I currently work as a consultant on software development."])

HOME_COVER == PyStr("images/mooseberry_tech-BACKGOURND.jpg")

-----------------------------------------------------------------------------
(* Statements and expressions *)

Lit(v) == [kind |-> "lit", value |-> v]

Name(id) == [kind |-> "name", id |-> id]

Assign(target, expr) == [target |-> target, expr |-> expr]

(* A later statement assigns SITEURL a second time. *)
Program_Reassigned == <<
    Assign("AUTHOR", Lit(AUTHOR)),
    Assign("SITENAME", Lit(SITENAME)),
    Assign("SITEURL", Lit(SITEURL)),
    Assign("THEME", Lit(THEME)),
    Assign("PATH", Lit(PATH)),
    Assign("TIMEZONE", Lit(TIMEZONE)),
    Assign("DEFAULT_LANG", Lit(DEFAULT_LANG)),
    Assign("FEED_ALL_ATOM", Lit(FEED_ALL_ATOM)),
    Assign("CATEGORY_FEED_ATOM", Lit(CATEGORY_FEED_ATOM)),
    Assign("TRANSLATION_FEED_ATOM", Lit(TRANSLATION_FEED_ATOM)),
    Assign("AUTHOR_FEED_ATOM", Lit(AUTHOR_FEED_ATOM)),
    Assign("AUTHOR_FEED_RSS", Lit(AUTHOR_FEED_RSS)),
    Assign("MENUITEMS", Lit(MENUITEMS)),
    Assign("LINKS", Lit(LINKS)),
    Assign("SOCIAL", Lit(SOCIAL)),
    Assign("DEFAULT_PAGINATION", Lit(DEFAULT_PAGINATION)),
    Assign("PAGINATION_PATTERNS", Lit(PAGINATION_PATTERNS)),
    Assign("ARTICLE_URL", Lit(ARTICLE_URL)),
    Assign("ARTICLE_SAVE_AS", Lit(ARTICLE_SAVE_AS)),
    Assign("PAGE_URL", Lit(PAGE_URL)),
    Assign("PAGE_SAVE_AS", Lit(PAGE_SAVE_AS)),
    Assign("YEAR_ARCHIVE_SAVE_AS", Lit(YEAR_ARCHIVE_SAVE_AS)),
    Assign("MONTH_ARCHIVE_SAVE_AS", Lit(MONTH_ARCHIVE_SAVE_AS)),
    Assign("CATEGORY_URL", Lit(CATEGORY_URL)),
    Assign("CATEGORY_SAVE_AS", Lit(CATEGORY_SAVE_AS)),
    Assign("CATEGORIES_SAVE_AS", Lit(CATEGORIES_SAVE_AS)),
    Assign("TAG_URL", Lit(TAG_URL)),
    Assign("TAG_SAVE_AS", Lit(TAG_SAVE_AS)),
    Assign("TAGS_SAVE_AS", Lit(TAGS_SAVE_AS)),
    Assign("AUTHOR_URL", Lit(AUTHOR_URL)),
    Assign("AUTHOR_SAVE_AS", Lit(AUTHOR_SAVE_AS)),
    Assign("AUTHORS_SAVE_AS", Lit(AUTHORS_SAVE_AS)),
    Assign("AUTHOR_META", Lit(AUTHOR_META)),
    Assign("HOME_COVER", Lit(HOME_COVER)),
    Assign("SITEURL", Lit(PyStr("https://mooseberrytech.github.io"))) >>

(* The module body: the assignment statements in file order. *)
Program == <<
    Assign("AUTHOR", Lit(AUTHOR)),
    Assign("SITENAME", Lit(SITENAME)),
    Assign("SITEURL", Lit(SITEURL)),
    Assign("THEME", Lit(THEME)),
    Assign("PATH", Lit(PATH)),
    Assign("TIMEZONE", Lit(TIMEZONE)),
    Assign("DEFAULT_LANG", Lit(DEFAULT_LANG)),
    Assign("FEED_ALL_ATOM", Lit(FEED_ALL_ATOM)),
    Assign("CATEGORY_FEED_ATOM", Lit(CATEGORY_FEED_ATOM)),
    Assign("TRANSLATION_FEED_ATOM", Lit(TRANSLATION_FEED_ATOM)),
    Assign("AUTHOR_FEED_ATOM", Lit(AUTHOR_FEED_ATOM)),
    Assign("AUTHOR_FEED_RSS", Lit(AUTHOR_FEED_RSS)),
    Assign("MENUITEMS", Lit(MENUITEMS)),
    Assign("LINKS", Lit(LINKS)),
    Assign("SOCIAL", Lit(SOCIAL)),
    Assign("DEFAULT_PAGINATION", Lit(DEFAULT_PAGINATION)),
    Assign("PAGINATION_PATTERNS", Lit(PAGINATION_PATTERNS)),
    Assign("ARTICLE_URL", Lit(ARTICLE_URL)),
    Assign("ARTICLE_SAVE_AS", Lit(ARTICLE_SAVE_AS)),
    Assign("PAGE_URL", Lit(PAGE_URL)),
    Assign("PAGE_SAVE_AS", Lit(PAGE_SAVE_AS)),
    Assign("YEAR_ARCHIVE_SAVE_AS", Lit(YEAR_ARCHIVE_SAVE_AS)),
    Assign("MONTH_ARCHIVE_SAVE_AS", Lit(MONTH_ARCHIVE_SAVE_AS)),
    Assign("CATEGORY_URL", Lit(CATEGORY_URL)),
    Assign("CATEGORY_SAVE_AS", Lit(CATEGORY_SAVE_AS)),
    Assign("CATEGORIES_SAVE_AS", Lit(CATEGORIES_SAVE_AS)),
    Assign("TAG_URL", Lit(TAG_URL)),
    Assign("TAG_SAVE_AS", Lit(TAG_SAVE_AS)),
    Assign("TAGS_SAVE_AS", Lit(TAGS_SAVE_AS)),
    Assign("AUTHOR_URL", Lit(AUTHOR_URL)),
    Assign("AUTHOR_SAVE_AS", Lit(AUTHOR_SAVE_AS)),
    Assign("AUTHORS_SAVE_AS", Lit(AUTHORS_SAVE_AS)),
    Assign("AUTHOR_META", Lit(AUTHOR_META)),
    Assign("HOME_COVER", Lit(HOME_COVER)) >>

SettingNames == {Program[i].target : i \in DOMAIN Program}

Done == Len(Program) + 1

(* Names an expression reads from the namespace. *)
FreeNames(e) == IF e.kind = "name" THEN {e.id} ELSE {}

(* Value of the right-hand side of a statement in namespace env. *)
Eval(e, env) == IF e.kind = "lit" THEN e.value ELSE env[e.id]

(* Namespace env after `n = v`. *)
Bind(env, n, v) == [m \in DOMAIN env \cup {n} |-> IF m = n THEN v ELSE env[m]]

(* Number of assignments per name, after one more assignment to n. *)
Count(a, n) == [m \in DOMAIN a \cup {n} |-> IF m = n THEN (IF n \in DOMAIN a THEN a[n] + 1 ELSE 1) ELSE a[m]]

Reverse(t) == [i \in 1..Len(t) |-> t[Len(t) + 1 - i]]

EmptyNamespace == [m \in {} |-> PyNone]

NotRead == [load |-> 0, name |-> "", value |-> PyNone]

Loaded(l) == pc[l] = Done

-----------------------------------------------------------------------------
(* The state machine *)

Init ==
    /\ pc = [l \in Loads |-> 1]
    /\ ns = [l \in Loads |-> EmptyNamespace]
    /\ assigned = [l \in Loads |-> EmptyNamespace]
    /\ deps = [l \in Loads |-> {}]
    /\ got = NotRead

(* As Exec, but MENUITEMS behaves like a set literal: the order of its   *)
(* entries is not fixed by the source text.                                *)
Exec_Unordered(l) ==
    /\ pc[l] < Done
    /\ LET st == Program[pc[l]]
           v  == Eval(st.expr, ns[l])
       IN  /\ \E w \in (IF st.target = "MENUITEMS" THEN {v, PyTuple(Reverse(v.val))} ELSE {v}) :
                 ns' = [ns EXCEPT ![l] = Bind(@, st.target, w)]
           /\ assigned' = [assigned EXCEPT ![l] = Count(@, st.target)]
           /\ deps' = [deps EXCEPT ![l] = @ \cup ({st.target} \X FreeNames(st.expr))]
    /\ pc' = [pc EXCEPT ![l] = @ + 1]
    /\ UNCHANGED got

(* Load l executes its next statement. *)
Exec(l) ==
    /\ pc[l] < Done
    /\ LET st == Program[pc[l]]
       IN  /\ ns' = [ns EXCEPT ![l] = Bind(@, st.target, Eval(st.expr, @))]
           /\ assigned' = [assigned EXCEPT ![l] = Count(@, st.target)]
           /\ deps' = [deps EXCEPT ![l] = @ \cup ({st.target} \X FreeNames(st.expr))]
    /\ pc' = [pc EXCEPT ![l] = @ + 1]
    /\ UNCHANGED got

(* The generator reads setting n of the loaded module l. *)
Read(l, n) ==
    /\ Loaded(l)
    /\ n \in DOMAIN ns[l]
    /\ got' = [load |-> l, name |-> n, value |-> ns[l][n]]
    /\ UNCHANGED <<pc, ns, assigned, deps>>

Next == \E l \in Loads : Exec(l) \/ (\E n \in SettingNames : Read(l, n))

Spec == Init /\ [][Next]_vars

-----------------------------------------------------------------------------
(* String functions used to state the properties *)

Char(s, i) == SubSeq(s, i, i)

Chars(s) == {Char(s, i) : i \in 1..Len(s)}

UpperCase == "ABCDEFGHIJKLMNOPQRSTUVWXYZ"

LowerCase == "abcdefghijklmnopqrstuvwxyz"

Whitespace == {" ", "\t", "\n", "\r"}

SlugChars == Chars(LowerCase) \cup Chars("0123456789") \cup {"-"}

(* str.lower() on one character *)
LowerChar(c) ==
    IF c \in Chars(UpperCase)
    THEN Char(LowerCase, CHOOSE i \in 1..Len(UpperCase) : Char(UpperCase, i) = c)
    ELSE c

RECURSIVE LowerFrom(_, _)
LowerFrom(s, i) == IF i > Len(s) THEN "" ELSE LowerChar(Char(s, i)) \o LowerFrom(s, i + 1)

(* str.lower() *)
Lower(s) == LowerFrom(s, 1)

RECURSIVE SeparateFrom(_, _, _)
SeparateFrom(s, sep, i) ==
    IF i > Len(s) THEN ""
    ELSE (IF Char(s, i) \in Whitespace THEN sep ELSE Char(s, i)) \o SeparateFrom(s, sep, i + 1)

(* s with every whitespace character replaced by sep *)
Separate(s, sep) == SeparateFrom(s, sep, 1)

(* Least j >= i with s[j] in cs, Len(s) + 1 when there is none *)
IndexFrom(s, cs, i) ==
    IF \E j \in i..Len(s) : Char(s, j) \in cs
    THEN CHOOSE j \in i..Len(s) : Char(s, j) \in cs /\ \A k \in i..(j - 1) : Char(s, k) \notin cs
    ELSE Len(s) + 1

RECURSIVE FieldsFrom(_, _)
FieldsFrom(t, i) ==
    LET open == IndexFrom(t, {"{"}, i)
    IN  IF open > Len(t) THEN {}
        ELSE LET stop  == IndexFrom(t, {"}", ":", "!"}, open + 1)
                 close == IndexFrom(t, {"}"}, open + 1)
             IN  {SubSeq(t, open + 1, stop - 1)} \cup FieldsFrom(t, close + 1)

(* Field names of the replacement fields {name}, {name:format} of a      *)
(* str.format template                                                   *)
Fields(t) == FieldsFrom(t, 1)

StartsWith(s, p) == Len(s) >= Len(p) /\ SubSeq(s, 1, Len(p)) = p

EndsWith(s, p) == Len(s) >= Len(p) /\ SubSeq(s, Len(s) - Len(p) + 1, Len(s)) = p

IsSlug(s) == Len(s) > 0 /\ Chars(s) \subseteq SlugChars

(* path is template t with its single {slug} field replaced by a slug *)
IsSlugInstance(path, t) ==
    LET open   == IndexFrom(t, {"{"}, 1)
        close  == IndexFrom(t, {"}"}, 1)
        prefix == SubSeq(t, 1, open - 1)
        suffix == SubSeq(t, close + 1, Len(t))
    IN  /\ Fields(t) = {"slug"}
        /\ Len(path) > Len(prefix) + Len(suffix)
        /\ StartsWith(path, prefix)
        /\ EndsWith(path, suffix)
        /\ IsSlug(SubSeq(path, Len(prefix) + 1, Len(path) - Len(suffix)))

(* A URL reference with a scheme: a ":" before the first "/", "?" or "#" *)
HasScheme(u) == IndexFrom(u, {":"}, 1) < IndexFrom(u, {"/", "?", "#"}, 1)

(* A network-path reference "//host/..." *)
HasHost(u) == StartsWith(u, "//")

SaveAsMatchesUrl(url, save) ==
    \/ save = url
    \/ save = url \o "index.html"
    \/ save = url \o "/index.html"

IsStr(v) == v.type = "str"

IsPosInt(v) == v.type = "int" /\ v.val \in Nat \ {0}

-----------------------------------------------------------------------------
(* Properties of the loaded record *)

(* C1: after the load AUTHOR is "Adriana Vasiu" (hence non-empty),        *)
(* DEFAULT_PAGINATION is 3, MENUITEMS has exactly 7 entries the first of  *)
(* which is ("Home", "/"), and AUTHOR_META has the single key             *)
(* "adriana vasiu" whose name is "Adriana Vasiu".                         *)
C1_ConcreteScenario ==
    \A l \in Loads : Loaded(l) =>
        /\ IsStr(ns[l]["AUTHOR"])
        /\ ns[l]["AUTHOR"].val = "Adriana Vasiu"
        /\ Len(ns[l]["AUTHOR"].val) > 0
        /\ ns[l]["DEFAULT_PAGINATION"].type = "int"
        /\ ns[l]["DEFAULT_PAGINATION"].val = 3
        /\ ns[l]["MENUITEMS"].type = "tuple"
        /\ Len(ns[l]["MENUITEMS"].val) = 7
        /\ ns[l]["MENUITEMS"].val[1] = <<"Home", "/">>
        /\ ns[l]["AUTHOR_META"].type = "dict"
        /\ DOMAIN ns[l]["AUTHOR_META"].val = {"adriana vasiu"}
        /\ ns[l]["AUTHOR_META"].val["adriana vasiu"].name = "Adriana Vasiu"

C1_Witness ==
    \E l \in Loads : Loaded(l) /\ got.load = l /\ got.name = "AUTHOR" /\ got.value.val = "Adriana Vasiu"

(* C2: after the load DEFAULT_PAGINATION is a positive integer, every     *)
(* PAGINATION_PATTERNS threshold is a positive integer, and consecutive   *)
(* entries have strictly increasing thresholds.                           *)
C2_PaginationInvariant ==
    \A l \in Loads : Loaded(l) =>
        LET pats == ns[l]["PAGINATION_PATTERNS"].val
        IN  /\ IsPosInt(ns[l]["DEFAULT_PAGINATION"])
            /\ ns[l]["PAGINATION_PATTERNS"].type = "tuple"
            /\ \A i \in 1..Len(pats) : pats[i][1] \in Nat \ {0}
            /\ \A i \in 1..(Len(pats) - 1) : pats[i][1] < pats[i + 1][1]

C2_Witness ==
    \E l \in Loads :
        /\ Loaded(l) /\ got.load = l /\ got.name = "PAGINATION_PATTERNS"
        /\ Len(got.value.val) >= 2

(* C3: every key of AUTHOR_META is the lowercase form of its entry's      *)
(* name with whitespace turned into the key's separator (a space); the    *)
(* menu addresses the same author by the hyphen-separated form.           *)
C3_AuthorKeyNormalized ==
    \A l \in Loads : Loaded(l) =>
        LET meta == ns[l]["AUTHOR_META"].val
        IN  \A k \in DOMAIN meta :
                /\ k = Separate(Lower(meta[k].name), " ")
                /\ \E i \in 1..Len(ns[l]["MENUITEMS"].val) :
                       ns[l]["MENUITEMS"].val[i][2]
                           = "/author/" \o Separate(Lower(meta[k].name), "-") \o "/"

C3_Witness ==
    \E l \in Loads :
        /\ Loaded(l) /\ got.load = l /\ got.name = "AUTHOR_META"
        /\ \E k \in DOMAIN got.value.val : got.value.val[k].name # k

(* C4: every replacement field of a URL or save-path template is one the  *)
(* generator supplies for that content type: date and slug for articles,  *)
(* date for archives, slug for pages, categories, tags and authors,       *)
(* base_name and number for pagination patterns.                          *)
ArticleTemplates == {"ARTICLE_URL", "ARTICLE_SAVE_AS"}

ArchiveTemplates == {"YEAR_ARCHIVE_SAVE_AS", "MONTH_ARCHIVE_SAVE_AS"}

SlugTemplates == {"PAGE_URL", "PAGE_SAVE_AS", "CATEGORY_URL", "CATEGORY_SAVE_AS", "CATEGORIES_SAVE_AS", "TAG_URL", "TAG_SAVE_AS", "TAGS_SAVE_AS", "AUTHOR_URL", "AUTHOR_SAVE_AS", "AUTHORS_SAVE_AS"}

C4_PlaceholdersValid ==
    \A l \in Loads : Loaded(l) =>
        /\ \A n \in ArticleTemplates \cup ArchiveTemplates \cup SlugTemplates : IsStr(ns[l][n])
        /\ \A n \in ArticleTemplates : Fields(ns[l][n].val) \subseteq {"date", "slug"}
        /\ \A n \in ArchiveTemplates : Fields(ns[l][n].val) \subseteq {"date"}
        /\ \A n \in SlugTemplates : Fields(ns[l][n].val) \subseteq {"slug"}
        /\ LET pats == ns[l]["PAGINATION_PATTERNS"].val
           IN  \A i \in 1..Len(pats) :
                   Fields(pats[i][2]) \cup Fields(pats[i][3]) \subseteq {"base_name", "number"}

C4_Witness ==
    \E l \in Loads :
        /\ Loaded(l) /\ got.load = l /\ got.name = "ARTICLE_URL"
        /\ Fields(got.value.val) = {"date", "slug"}
        /\ Fields(ns[l]["PAGINATION_PATTERNS"].val[2][3]) = {"base_name", "number"}
        /\ Fields(ns[l]["TAG_SAVE_AS"].val) = {"slug"}

(* C5: every MENUITEMS entry is a (label, path) pair whose path has no    *)
(* scheme and no host, and the entries come in the order Home, Author,    *)
(* Testing, Development, Instrumentation, Automation, Ways of Working.    *)
C5_MenuRelativeOrdered ==
    \A l \in Loads : Loaded(l) =>
        LET menu == ns[l]["MENUITEMS"].val
        IN  /\ ns[l]["MENUITEMS"].type = "tuple"
            /\ \A i \in 1..Len(menu) :
                   Len(menu[i]) = 2 /\ ~HasScheme(menu[i][2]) /\ ~HasHost(menu[i][2])
            /\ [i \in 1..Len(menu) |-> menu[i][1]]
                   = <<"Home", "Author", "Testing", "Development", "Instrumentation", "Automation", "Ways of Working">>

C5_Witness ==
    \E l \in Loads :
        /\ Loaded(l) /\ got.load = l /\ got.name = "MENUITEMS"
        /\ Len(got.value.val) = 7
        /\ StartsWith(got.value.val[2][2], "/author/")

(* C6: during a load every setting name is assigned exactly once and no   *)
(* value is taken from another setting; once a load has completed, no     *)
(* later step (a read by the generator included) changes its record.      *)
C6_AssignedOnce ==
    \A l \in Loads :
        /\ \A n \in DOMAIN assigned[l] : assigned[l][n] = 1
        /\ DOMAIN assigned[l] = DOMAIN ns[l]
        /\ Cardinality(DOMAIN ns[l]) = pc[l] - 1
        /\ deps[l] = {}

C6_Frozen == \A l \in Loads : Loaded(l) => Loaded(l)' /\ ns'[l] = ns[l]

C6_ConstructedOnce == [](C6_AssignedOnce) /\ [][C6_Frozen]_vars

C6_Witness ==
    \E l \in Loads :
        /\ Loaded(l) /\ got.load = l /\ got.name = "HOME_COVER"
        /\ Cardinality(DOMAIN ns[l]) = 34

FeedSettings == {"FEED_ALL_ATOM", "CATEGORY_FEED_ATOM", "TRANSLATION_FEED_ATOM", "AUTHOR_FEED_ATOM", "AUTHOR_FEED_RSS"}

C9_FeedsDisabled ==
    \A l \in Loads : Loaded(l) =>
        \A f \in FeedSettings : f \in DOMAIN ns[l] /\ ns[l][f].type = "NoneType"

C9_Witness ==
    \E l \in Loads :
        /\ Loaded(l) /\ got.load = l /\ got.name \in FeedSettings
        /\ got.value = PyNone

(* C10: every menu path other than "/" names a page that CATEGORY_SAVE_AS *)
(* or AUTHOR_SAVE_AS generates for some lowercase hyphenated slug, and    *)
(* each save-path template is its URL template, or that followed by       *)
(* "index.html" or "/index.html" (pagination patterns included).          *)
UrlSavePairs == {<<"ARTICLE_URL", "ARTICLE_SAVE_AS">>, <<"PAGE_URL", "PAGE_SAVE_AS">>, <<"CATEGORY_URL", "CATEGORY_SAVE_AS">>, <<"TAG_URL", "TAG_SAVE_AS">>, <<"AUTHOR_URL", "AUTHOR_SAVE_AS">>}

C10_MenuTargetsGenerated ==
    \A l \in Loads : Loaded(l) =>
        LET menu == ns[l]["MENUITEMS"].val
            pats == ns[l]["PAGINATION_PATTERNS"].val
        IN  /\ \A i \in 1..Len(menu) :
                   menu[i][2] # "/" =>
                       /\ StartsWith(menu[i][2], "/")
                       /\ LET page == SubSeq(menu[i][2], 2, Len(menu[i][2])) \o "index.html"
                          IN  \/ IsSlugInstance(page, ns[l]["CATEGORY_SAVE_AS"].val)
                              \/ IsSlugInstance(page, ns[l]["AUTHOR_SAVE_AS"].val)
            /\ \A p \in UrlSavePairs : SaveAsMatchesUrl(ns[l][p[1]].val, ns[l][p[2]].val)
            /\ \A i \in 1..Len(pats) : SaveAsMatchesUrl(pats[i][2], pats[i][3])

C10_Witness ==
    \E l \in Loads :
        /\ Loaded(l) /\ got.load = l /\ got.name = "CATEGORY_SAVE_AS"
        /\ IsSlugInstance("category/ways-of-working/index.html", got.value.val)
        /\ IsSlugInstance("author/adriana-vasiu/index.html", ns[l]["AUTHOR_SAVE_AS"].val)
        /\ \E i \in 1..Len(ns[l]["MENUITEMS"].val) :
               ns[l]["MENUITEMS"].val[i][2] = "/category/ways-of-working/"

====
